---- MODULE Spec2Model ----
(***************************************************************************)
(* Model of app.py: the Streamlit driver of the Mistral OCR PDF to         *)
(* Markdown/DOCX converter.  process_pdf is an operator computed as the    *)
(* code computes it; main() is modelled as one action per script rerun.    *)
(*                                                                         *)
(* Python values are tagged records [t, s]: t is the Python type, s the    *)
(* payload (the characters of a str, the items of a list).  A str is a     *)
(* sequence of one-character strings, so that strip(), the f-string of the *)
(* title heading and the joins of build_markdown are computed.             *)
(***************************************************************************)
EXTENDS Integers, Sequences, FiniteSets, TLC

VARIABLES ocr_result, pages_text, md_text, docx_path,
          title, insert_page_breaks, uploaded_file,
          nreq, call, ret, bm_call, out

vars == <<ocr_result, pages_text, md_text, docx_path, title,
          insert_page_breaks, uploaded_file, nreq, call, ret, bm_call, out>>

session == <<ocr_result, pages_text, md_text, docx_path>>

widgets == <<title, insert_page_breaks, uploaded_file>>

-----------------------------------------------------------------------------
(* Bounds *)

\* longest `pages` list of an OCR response handed to process_pdf alone
MaxPages == 2

\* longest `pages` list of an OCR response in the application runs
MaxAppPages == 2

\* number of Process-PDF clicks in one session
MaxRequests == 2

-----------------------------------------------------------------------------
(* Python values *)

None == [t |-> "none", s |-> <<>>]

\* dict.get(k) of a key the dict does not have (None in Python)
Absent == [t |-> "absent", s |-> <<>>]

\* a value that is neither a str, a list nor a dict
Number == [t |-> "int", s |-> <<>>]

Str(s) == [t |-> "str", s |-> s]

List(items) == [t |-> "list", s |-> items]

Dict(md, tx) == [t |-> "dict", markdown |-> md, text |-> tx]

IsStr(v) == v.t = "str"

\* bool(v) for the values the code tests: None, str and list
Truthy(v) == v.t \in {"str", "list"} /\ v.s # <<>>

Whitespace == {" ", "\n"}

RECURSIVE LStrip(_)
LStrip(s) == IF s # <<>> /\ Head(s) \in Whitespace THEN LStrip(Tail(s)) ELSE s

RECURSIVE RStrip(_)
RStrip(s) == IF s # <<>> /\ s[Len(s)] \in Whitespace THEN RStrip(SubSeq(s, 1, Len(s) - 1)) ELSE s

\* str.strip()
Strip(s) == RStrip(LStrip(s))

-----------------------------------------------------------------------------
(* The OCR module's functions (mistral_ocr), used by app.py *)

\* unwrap_container(resp): the mapping under the response's envelope
unwrap_container(resp) == resp.body

\* extract_from_page(p): the values the extractor may return for record p.
\* markdown is preferred to text; a record without text yields nothing,
\* which is the empty string or None.
extract_from_page(p) ==
  IF IsStr(p.markdown) /\ Strip(p.markdown.s) # <<>> THEN {p.markdown}
  ELSE IF IsStr(p.text) /\ Strip(p.text.s) # <<>> THEN {p.text}
  ELSE {Str(<<>>), None}

PageBreak == <<"\n", "\n", "<page-break>", "\n", "\n">>

ParagraphBreak == <<"\n", "\n">>

RECURSIVE JoinPages(_, _)
JoinPages(texts, sep) ==
  IF texts = <<>> THEN <<>>
  ELSE IF Len(texts) = 1 THEN texts[1].s
  ELSE texts[1].s \o sep \o JoinPages(Tail(texts), sep)

\* build_markdown(pages_text, insert_page_breaks=...): every page in order,
\* a page-break marker between two pages when the toggle is on
build_markdown(texts, breaks) ==
  Str(JoinPages(texts, IF breaks THEN PageBreak ELSE ParagraphBreak))

-----------------------------------------------------------------------------
(* process_pdf *)

FallbackKeys == <<"markdown", "full_text", "content", "text", "raw_text">>

\* line 80 without its `or not pages`: an empty list counts as pages
NoUsablePagesNotList(container) == container.pages.t # "list"

\* `pages` is not a non-empty list (line 80)
NoUsablePages(container) == container.pages.t # "list" \/ container.pages.s = <<>>

Usable(v) == IsStr(v) /\ Strip(v.s) # <<>>

RECURSIVE ScanFrom(_, _)
ScanFrom(container, i) ==
  IF i > Len(FallbackKeys) THEN <<>>
  ELSE IF Usable(container[FallbackKeys[i]]) THEN container[FallbackKeys[i]].s
  ELSE ScanFrom(container, i + 1)

\* the loop of lines 82-86 keeping the stripped text instead of the field's value
TopLevelTextStripped(container) == Strip(ScanFrom(container, 1))

\* the loop of lines 82-86: `top`
TopLevelText(container) == ScanFrom(container, 1)

SynthesizedPages(top) == <<Dict(Str(top), Absent)>>

\* lines 78-89 with the scan stopping at the first key, markdown
NormalizePagesMarkdownOnly(container) ==
  IF NoUsablePages(container)
  THEN IF ~Usable(container.markdown)
       THEN [err |-> "ValueError", pages |-> <<>>]
       ELSE [err |-> "none", pages |-> SynthesizedPages(container.markdown.s)]
  ELSE [err |-> "none", pages |-> container.pages.s]

\* lines 78-89: the page records, or the ValueError of line 88
NormalizePages(container) ==
  IF NoUsablePages(container)
  THEN IF Strip(TopLevelText(container)) = <<>>
       THEN [err |-> "ValueError", pages |-> <<>>]
       ELSE [err |-> "none", pages |-> SynthesizedPages(TopLevelText(container))]
  ELSE [err |-> "none", pages |-> container.pages.s]

\* `p if isinstance(p, dict) else {}` (line 94)
ExtractorArg(p) == IF p.t = "dict" THEN p ELSE Dict(Absent, Absent)

\* line 94 without its `or ""`
OrEmptyOmitted(x) == x

\* `x or ""` (line 94)
OrEmpty(x) == IF Truthy(x) THEN x ELSE Str(<<>>)

\* f"# {title}\n\n{txt}" (line 96)
TitleHeading(ttl, txt) == Str(<<"#", " ">> \o ttl.s \o <<"\n", "\n">> \o txt.s)

\* lines 94-96 without the `i == 1` of line 95
PageTextEveryPage(x, ttl, i) ==
  IF Truthy(ttl) THEN TitleHeading(ttl, OrEmpty(x)) ELSE OrEmpty(x)

\* lines 94-96: the text recorded for page i, x being the extractor's return
PageText(x, ttl, i) ==
  IF Truthy(ttl) /\ i = 1 THEN TitleHeading(ttl, OrEmpty(x)) ELSE OrEmpty(x)

\* lines 92-97 appending only the pages that have text
ExtractPagesSkipEmpty(pages, xs, ttl) ==
  SelectSeq([i \in 1..Len(pages) |-> PageText(xs[i], ttl, i)], LAMBDA e : e.s # <<>>)

\* lines 92-97: one entry per page record, in order
ExtractPages(pages, xs, ttl) == [i \in 1..Len(pages) |-> PageText(xs[i], ttl, i)]

\* the sequences of extractor returns possible for the page records
RECURSIVE ExtractChoices(_)
ExtractChoices(pages) ==
  IF pages = <<>> THEN {<<>>}
  ELSE {<<x>> \o rest : x \in extract_from_page(ExtractorArg(Head(pages))),
                        rest \in ExtractChoices(Tail(pages))}

NoReturn == [err |-> "pending", response |-> None, pages_text |-> <<>>, md_text |-> None, num_pages |-> 0]

Raised(e) == [NoReturn EXCEPT !.err = e]

\* process_pdf (lines 58-113): api is the outcome of post_ocr_with_config,
\* xs the extractor's returns for the page records
process_pdf(api, ttl, breaks, xs) ==
  IF ~api.ok THEN Raised("HTTPError")
  ELSE LET n == NormalizePages(unwrap_container(api.resp))
           texts == ExtractPages(n.pages, xs, ttl)
       IN IF n.err # "none" THEN Raised(n.err)
          ELSE [err |-> "none", response |-> api.resp, pages_text |-> texts,
                md_text |-> build_markdown(texts, breaks), num_pages |-> Len(n.pages)]

\* the extractor's possible returns during process_pdf(api, ...)
CallChoices(api) ==
  IF ~api.ok THEN {<<>>}
  ELSE ExtractChoices(NormalizePages(unwrap_container(api.resp)).pages)

-----------------------------------------------------------------------------
(* Inputs *)

\* values of a top-level fallback field of the container
FieldValues == {Absent, Number, Str(<<" ">>), Str(<<" ", "a">>), Str(<<"b">>)}

\* page records: a non-mapping, and mappings with and without text
PageRecords ==
  {Number, Dict(Absent, Absent), Dict(Str(<<"a">>), Absent), Dict(Absent, Str(<<" ", "b">>)),
   Dict(Str(<<" ">>), Str(<<"b">>)), Dict(Str(<<"a">>), Str(<<"b">>))}

PageLists(recs, n) == UNION {[1..k -> recs] : k \in 1..n}

\* `pages` values that are not a non-empty list
UnusablePages == {Absent, Number, List(<<>>)}

Container(pg, md, ft, ct, tx, rt) ==
  [pages |-> pg, markdown |-> md, full_text |-> ft, content |-> ct, text |-> tx, raw_text |-> rt]

\* containers without a usable `pages` list, with every combination of fallback fields
FallbackContainers ==
  {Container(pg, md, ft, ct, tx, rt) :
     pg \in UnusablePages, md \in FieldValues, ft \in FieldValues,
     ct \in FieldValues, tx \in FieldValues, rt \in FieldValues}

\* containers with a non-empty `pages` list of at most n records from recs
PagedContainers(recs, n) ==
  {Container(List(pl), md, Absent, Absent, tx, Absent) :
     pl \in PageLists(recs, n), md \in {Absent, Str(<<"b">>)}, tx \in {Absent, Str(<<" ">>)}}

Response(req, container) == [req |-> req, body |-> container]

ApiOk(resp) == [ok |-> TRUE, resp |-> resp]

\* post_ocr_with_config raised (lines 53-55, or the request itself)
ApiFailed == [ok |-> FALSE, resp |-> None]

\* the title argument of process_pdf
TitleArgs == {None, Str(<<>>), Str(<<"T">>)}

-----------------------------------------------------------------------------
(* process_pdf on its own: one call with arbitrary arguments *)

NoBuild == [made |-> FALSE, pages_text |-> <<>>, insert_page_breaks |-> FALSE]

Build(texts, breaks) == [made |-> TRUE, pages_text |-> texts, insert_page_breaks |-> breaks]

NoCall == [made |-> FALSE, api |-> ApiFailed, title |-> None, insert_page_breaks |-> FALSE]

Call(api, ttl, breaks) == [made |-> TRUE, api |-> api, title |-> ttl, insert_page_breaks |-> breaks]

NoOutput ==
  [clicked |-> FALSE, error |-> "none", success |-> 0, results |-> FALSE,
   md_file |-> None, docx |-> NoBuild, docx_md |-> None, docx_error |-> FALSE,
   md_download |-> None, docx_download |-> FALSE,
   preview_md |-> None, preview_pages |-> <<>>, preview_raw |-> None]

\* lines 23-31 and the widgets' defaults (lines 145-156)
InitApp ==
  /\ ocr_result = None
  /\ pages_text = <<>>
  /\ md_text = None
  /\ docx_path = None
  /\ title = Str(<<>>)
  /\ insert_page_breaks = TRUE
  /\ uploaded_file = None
  /\ nreq = 0
  /\ ret = NoReturn
  /\ bm_call = NoBuild
  /\ out = NoOutput

PdfCalls ==
  {Call(ApiOk(Response(1, c)), t, b) :
     c \in FallbackContainers \cup PagedContainers(PageRecords, MaxPages),
     t \in TitleArgs, b \in BOOLEAN}
  \cup {Call(ApiFailed, None, TRUE)}

InitPdf == InitApp /\ call \in PdfCalls

\* the call returns a result (line 108)
PdfReturns ==
  /\ ret = NoReturn
  /\ \E xs \in CallChoices(call.api) :
       /\ ret' = process_pdf(call.api, call.title, call.insert_page_breaks, xs)
       /\ ret'.err = "none"
       /\ bm_call' = Build(ret'.pages_text, call.insert_page_breaks)
  /\ UNCHANGED <<session, widgets, nreq, call, out>>

\* the call raises (line 55 or line 88)
PdfRaises ==
  /\ ret = NoReturn
  /\ \E xs \in CallChoices(call.api) :
       /\ ret' = process_pdf(call.api, call.title, call.insert_page_breaks, xs)
       /\ ret'.err # "none"
  /\ UNCHANGED <<session, widgets, nreq, call, bm_call, out>>

NextPdf == PdfReturns \/ PdfRaises

SpecPdf == InitPdf /\ [][NextPdf]_vars

-----------------------------------------------------------------------------
(* main(): one action per rerun of the script *)

\* an UploadedFile (line 152)
File(name) == [t |-> "file", s |-> <<name>>]

Files == {File("a.pdf")}

\* the text the user may type into the title box (line 145)
TitleInputs == {Str(<<>>), Str(<<"T">>)}

\* page records of the application runs: one without text, one with
AppPageRecords == {Dict(Absent, Absent), Dict(Str(<<"a">>), Absent)}

\* responses with pages, with fallback text only, and without any content
AppContainers ==
  {Container(pg, md, Absent, Absent, Absent, Absent) :
     pg \in {Absent} \cup {List(pl) : pl \in PageLists(AppPageRecords, MaxAppPages)},
     md \in {Absent, Str(<<"b">>)}}

\* the outcomes of the OCR request of click number req
ApiOutcomes(req) == {ApiFailed} \cup {ApiOk(Response(req, c)) : c \in AppContainers}

\* `title if title else None` (line 172)
TitleArg(ttl) == IF Truthy(ttl) THEN ttl ELSE None

\* lines 177-179 without the assignment of ocr_result
StoreResultPartial(ss, result) ==
  [ss EXCEPT !.pages_text = result.pages_text, !.md_text = result.md_text]

\* lines 177-179
StoreResult(ss, result) ==
  [ss EXCEPT !.ocr_result = result.response,
             !.pages_text = result.pages_text,
             !.md_text = result.md_text]

\* lines 164-185: the session state after the button's branch, and what it shows
ProcessButton(ss, clicked, result) ==
  IF ~clicked THEN [ss |-> ss, error |-> "none", success |-> 0]
  ELSE IF result.err = "none"
       THEN [ss |-> StoreResult(ss, result), error |-> "none", success |-> result.num_pages]
       ELSE [ss |-> ss, error |-> result.err, success |-> 0]

\* the except branch of lines 249-259 without the download button of lines 254-259
DocxFailedNoDownload(ss, o) == [o EXCEPT !.docx_error = TRUE]

\* the except branch of lines 249-259
DocxFailed(ss, o) ==
  [o EXCEPT !.docx_error = TRUE, !.md_download = ss.md_text]

\* lines 209-247
DocxBuilt(ss, o) ==
  [o EXCEPT !.md_download = ss.md_text, !.docx_download = TRUE,
            !.preview_md = ss.md_text, !.preview_pages = ss.pages_text,
            !.preview_raw = ss.ocr_result]

\* create_docx(md_text, pages_text, tmp_path, insert_page_breaks) (lines 115-131)
create_docx(md, texts, breaks, o) ==
  [o EXCEPT !.docx = Build(texts, breaks), !.docx_md = md]

\* lines 188-259: the results section, docx_ok telling whether build_hybrid_docx returns
DisplayResults(ss, breaks, docx_ok, o) ==
  IF ~Truthy(ss.md_text) THEN o
  ELSE LET written == [o EXCEPT !.results = TRUE, !.md_file = ss.md_text]
           called == create_docx(ss.md_text, ss.pages_text, breaks, written)
       IN IF docx_ok THEN DocxBuilt(ss, called) ELSE DocxFailed(ss, called)

Session == [ocr_result |-> ocr_result, pages_text |-> pages_text, md_text |-> md_text]

\* main() (lines 133-259) with the widgets' values of this rerun.  The
\* configuration is present: without it the script stops at line 140, before
\* it reads or writes any state.
Main(ttl, breaks, file, clicked, result, docx_ok) ==
  IF file = None THEN [ss |-> Session, out |-> NoOutput]
  ELSE LET b == ProcessButton(Session, clicked, result)
           o == [NoOutput EXCEPT !.clicked = clicked, !.error = b.error, !.success = b.success]
       IN [ss |-> b.ss, out |-> DisplayResults(b.ss, breaks, docx_ok, o)]

\* a rerun: the script runs from top to bottom and the page is redrawn
Rerun(ttl, breaks, file, clicked, result) ==
  \E docx_ok \in BOOLEAN :
    LET m == Main(ttl, breaks, file, clicked, result, docx_ok)
    IN /\ ocr_result' = m.ss.ocr_result
       /\ pages_text' = m.ss.pages_text
       /\ md_text' = m.ss.md_text
       /\ docx_path' = docx_path
       /\ out' = m.out

\* the user edits the title (line 145)
ChangeTitle ==
  /\ \E t \in TitleInputs \ {title} :
       /\ title' = t
       /\ Rerun(t, insert_page_breaks, uploaded_file, FALSE, NoReturn)
  /\ UNCHANGED <<insert_page_breaks, uploaded_file, nreq, call, ret, bm_call>>

\* the user toggles "Insert page breaks" (line 146)
ToggleBreaks ==
  /\ insert_page_breaks' = ~insert_page_breaks
  /\ Rerun(title, insert_page_breaks', uploaded_file, FALSE, NoReturn)
  /\ UNCHANGED <<title, uploaded_file, nreq, call, ret, bm_call>>

\* the user uploads or replaces the PDF (line 152)
UploadFile ==
  /\ \E f \in Files \ {uploaded_file} :
       /\ uploaded_file' = f
       /\ Rerun(title, insert_page_breaks, f, FALSE, NoReturn)
  /\ UNCHANGED <<title, insert_page_breaks, nreq, call, ret, bm_call>>

\* the user removes the uploaded PDF
RemoveFile ==
  /\ uploaded_file # None
  /\ uploaded_file' = None
  /\ Rerun(title, insert_page_breaks, None, FALSE, NoReturn)
  /\ UNCHANGED <<title, insert_page_breaks, nreq, call, ret, bm_call>>

\* the user clicks "Process PDF" (line 164), shown only with a file uploaded
ClickProcess ==
  /\ uploaded_file # None
  /\ nreq < MaxRequests
  /\ nreq' = nreq + 1
  /\ \E api \in ApiOutcomes(nreq + 1) :
       /\ call' = Call(api, TitleArg(title), insert_page_breaks)
       /\ \E xs \in CallChoices(api) :
            /\ ret' = process_pdf(api, TitleArg(title), insert_page_breaks, xs)
            /\ bm_call' = IF ret'.err = "none"
                          THEN Build(ret'.pages_text, insert_page_breaks)
                          ELSE bm_call
            /\ Rerun(title, insert_page_breaks, uploaded_file, TRUE, ret')
  /\ UNCHANGED <<title, insert_page_breaks, uploaded_file>>

Init == InitApp /\ call = NoCall

Next == ChangeTitle \/ ToggleBreaks \/ UploadFile \/ RemoveFile \/ ClickProcess

Spec == Init /\ [][Next]_vars

-----------------------------------------------------------------------------
(* Properties of process_pdf, checked under SpecPdf *)

\* the call has returned or raised
Done == call.made /\ ret.err # "pending"

Returned == Done /\ ret.err = "none"

\* the unwrapped container of the call (the OCR request having succeeded)
TheContainer == call.api.resp.body

PagesValue == TheContainer.pages

HasPagesList == call.api.ok /\ PagesValue.t = "list" /\ Len(PagesValue.s) >= 1

LacksPagesList == call.api.ok /\ (PagesValue.t # "list" \/ Len(PagesValue.s) = 0)

FieldAt(k) == TheContainer[FallbackKeys[k]]

\* a string with a character that is not white space
NonBlank(v) == v.t = "str" /\ \E i \in 1..Len(v.s) : v.s[i] \notin Whitespace

\* field k is the first fallback field, in the scan's order, that is a non-blank string
FirstNonBlank(k) == NonBlank(FieldAt(k)) /\ \A j \in 1..(k - 1) : ~NonBlank(FieldAt(j))

\* the level-1 heading put before page 1 when the title argument is given
Heading(ttl) ==
  IF ttl.t = "str" /\ Len(ttl.s) > 0 THEN <<"#", " ">> \o ttl.s \o <<"\n", "\n">> ELSE <<>>

IsSuffix(x, e) == Len(x) <= Len(e) /\ SubSeq(e, Len(e) - Len(x) + 1, Len(e)) = x

\* the texts the extractor may yield for page record p (nothing counts as "")
ExtractedTexts(p) == {x.s : x \in extract_from_page(ExtractorArg(p))}

\* C1: for a container whose `pages` is a non-empty list, a successful
\* process_pdf returns as many pages_text entries as there are page records,
\* num_pages is that number, and entry i ends with the text extracted from
\* record i; records without text still contribute their entry.
C1_OneEntryPerPage ==
  (Returned /\ HasPagesList) =>
    /\ Len(ret.pages_text) = Len(PagesValue.s)
    /\ ret.num_pages = Len(PagesValue.s)
    /\ \A i \in 1..Len(PagesValue.s) :
         \E x \in ExtractedTexts(PagesValue.s[i]) : IsSuffix(x, ret.pages_text[i].s)

\* a two-page response whose second record has no text keeps both entries
C1_Witness ==
  /\ Returned /\ HasPagesList
  /\ Len(PagesValue.s) = 2
  /\ PagesValue.s[1] = Dict(Str(<<"a">>), Absent)
  /\ PagesValue.s[2] = Dict(Absent, Absent)
  /\ ret.pages_text = <<Str(<<"a">>), Str(<<>>)>>
  /\ ret.num_pages = 2

\* C2: without a usable `pages` list, the first fallback field (in the order
\* markdown, full_text, content, text, raw_text) that is a non-blank string
\* gives exactly one page, whose text is that field's value unmodified
\* (after the title heading, when a title is given).
C2_FirstFallbackField ==
  (Done /\ LacksPagesList) =>
    \A k \in 1..Len(FallbackKeys) :
      FirstNonBlank(k) =>
        /\ ret.err = "none"
        /\ ret.num_pages = 1
        /\ Len(ret.pages_text) = 1
        /\ ret.pages_text[1].s = Heading(call.title) \o FieldAt(k).s

\* markdown blank, full_text " a" and content "b": the page is " a", not stripped
C2_Witness ==
  /\ Done /\ LacksPagesList
  /\ TheContainer.markdown = Str(<<" ">>)
  /\ TheContainer.full_text = Str(<<" ", "a">>)
  /\ TheContainer.content = Str(<<"b">>)
  /\ ret.pages_text = <<Str(<<" ", "a">>)>>

NoContent == LacksPagesList /\ \A k \in 1..Len(FallbackKeys) : ~NonBlank(FieldAt(k))

NormalizedPages == NormalizePages(TheContainer).pages

\* C4: with a title, entry 1 of pages_text is "# <title>", a blank line and
\* the first page's extracted text, and every other entry is its page's
\* extracted text; with no title (None or "") every entry is its page's
\* extracted text.  On the `pages` path and on the fallback path.
C4_TitleOnFirstPageOnly ==
  Returned =>
    /\ Len(ret.pages_text) = Len(NormalizedPages)
    /\ \A i \in 1..Len(NormalizedPages) :
         \E x \in ExtractedTexts(NormalizedPages[i]) :
           ret.pages_text[i].s = (IF i = 1 THEN Heading(call.title) ELSE <<>>) \o x

\* title "T" on two pages with text: only the first entry has the heading
C4_Witness ==
  /\ Returned /\ HasPagesList
  /\ call.title = Str(<<"T">>)
  /\ ret.pages_text = <<Str(<<"#", " ", "T", "\n", "\n", "a">>), Str(<<"a">>)>>

\* C7: for a non-empty `pages` list process_pdf does not raise, and every
\* entry of pages_text is a string, also for a record that is not a mapping
\* and for a record the extractor yields nothing for.
C7_AbsentTextIsEmptyString ==
  (Done /\ HasPagesList) =>
    /\ ret.err = "none"
    /\ \A i \in 1..Len(ret.pages_text) : ret.pages_text[i].t = "str"

\* a record that is not a mapping and a mapping without text: two empty strings
C7_Witness ==
  /\ Returned /\ HasPagesList
  /\ call.title = None
  /\ PagesValue.s = <<Number, Dict(Absent, Absent)>>
  /\ ret.pages_text = <<Str(<<>>), Str(<<>>)>>

\* C8: whenever process_pdf returns, num_pages >= 1 and pages_text is not empty.
C8_NeverZeroPages == Returned => (ret.num_pages >= 1 /\ Len(ret.pages_text) >= 1)

\* an empty `pages` list with fallback text returns one page
C8_Witness ==
  /\ Returned
  /\ PagesValue = List(<<>>)
  /\ ret.num_pages = 1
  /\ Len(ret.pages_text) = 1

-----------------------------------------------------------------------------
(* Properties of main(), checked under Spec *)

\* the rerun called create_docx and build_hybrid_docx raised
DocxBuildFailed == out.docx.made /\ ~out.docx_download

\* the stored document is the one process_pdf returned in this rerun
StoredFromThisRun ==
  /\ ocr_result = ret.response
  /\ pages_text = ret.pages_text
  /\ md_text = ret.md_text

\* C5: in a rerun where build_hybrid_docx fails, the stored ocr_result,
\* pages_text and md_text are those the results section was entered with (the
\* newly returned ones after a successful click, else those of the state
\* before), the error is shown, and a Markdown download with exactly the
\* stored md_text is offered.
C5_DocxFailureKeepsMarkdown ==
  [][DocxBuildFailed' =>
       /\ md_text'.t = "str" /\ Len(md_text'.s) > 0
       /\ IF out'.clicked /\ ret'.err = "none"
          THEN StoredFromThisRun'
          ELSE UNCHANGED <<ocr_result, pages_text, md_text>>
       /\ out'.docx_error
       /\ out'.md_download = md_text'
       /\ out'.md_file = md_text']_vars

\* a rerun without a click, DOCX failing, the Markdown of the earlier request offered
C5_Witness ==
  /\ DocxBuildFailed
  /\ ~out.clicked
  /\ out.docx_error
  /\ md_text = Str(<<"a">>)
  /\ out.md_download = Str(<<"a">>)

\* C6: the response, page texts and Markdown shown in the results section,
\* written to output.md and passed to the DOCX builder were created by the
\* latest Process-PDF request.
C6_ResultsOfLatestRequest ==
  out.results =>
    /\ ocr_result.req = nreq
    /\ out.md_file = md_text
    /\ out.docx.pages_text = pages_text

\* the session fields are at their initial values (lines 24-29)
SessionInitial == ocr_result = None /\ pages_text = <<>> /\ md_text = None

\* the session fields are the fields of one result process_pdf can return
SessionFromOneResult ==
  /\ ocr_result # None
  /\ \E ttl \in {TitleArg(t) : t \in TitleInputs}, breaks \in BOOLEAN :
       \E xs \in CallChoices(ApiOk(ocr_result)) :
         LET r == process_pdf(ApiOk(ocr_result), ttl, breaks, xs)
         IN r.err = "none" /\ r.pages_text = pages_text /\ r.md_text = md_text

\* C9: a rerun whose process_pdf call raises assigns none of ocr_result,
\* pages_text, md_text and shows the error; the three fields are always all
\* initial or all fields of one successful process_pdf result.
C9_NoPartialOutput ==
  /\ [](SessionInitial \/ SessionFromOneResult)
  /\ [][(out'.clicked /\ ret'.err # "none") =>
          /\ UNCHANGED <<ocr_result, pages_text, md_text>>
          /\ out'.error = ret'.err
          /\ out'.success = 0]_vars

\* the second request raised the ValueError and the first request's document stays stored
C9_Witness ==
  /\ nreq = 2
  /\ out.clicked
  /\ ret.err = "ValueError"
  /\ out.error = "ValueError"
  /\ ocr_result # None
  /\ ocr_result.req = 1
  /\ md_text = Str(<<"a">>)

\* C10: whenever the DOCX is built, the pages_text and insert_page_breaks
\* passed to build_hybrid_docx are those passed to build_markdown when the
\* stored md_text was assembled.
C10_DocxBuiltWithMarkdownInputs ==
  out.docx.made =>
    /\ bm_call.made
    /\ out.docx.pages_text = bm_call.pages_text
    /\ out.docx.insert_page_breaks = bm_call.insert_page_breaks

====
